---- MODULE Spec2Model ----
(***************************************************************************)
(* Model of signaling_server/server.py: SignalingServer.handle_client.     *)
(*                                                                         *)
(* One handler coroutine runs per accepted connection; all handlers share  *)
(* the registry self.rooms.  A handler runs without interruption from one  *)
(* await to the next, so every action below is the code between two        *)
(* suspension points: the wait for the next inbound frame (line 24) and    *)
(* each `await ... send(...)`.  A send to a connection whose channel is    *)
(* closed raises ConnectionClosed in the handler that performs the send.   *)
(* Frames with an unknown action are ignored by the code and change        *)
(* nothing; they are left out of the inbound alphabet.                     *)
(***************************************************************************)
EXTENDS Integers, FiniteSets, Sequences, TLC

\* ---- bounds of the model
NumConns == 3
NumRooms == 2
NumPayloads == 1
MaxMsgs == 4

MaxPeers_Three == 2 + 1
\* line 42, `len(self.rooms[room]) >= 2`: the capacity of a room
MaxPeers == 2

Conns == 1..NumConns
RoomIds == 1..NumRooms
Payloads == 1..NumPayloads
\* a falsy value: None or "" for data.get("room") / data.get("payload"),
\* and the initial `room = None` of line 22
None == 0

VARIABLES
    rooms,      \* self.rooms: room id -> set of connections (a dict: keys come and go)
    room,       \* the local `room` of each handler
    payload,    \* the local `payload` of each handler
    pc,         \* where each handler is suspended
    todo,       \* the peers left in the `for peer in list(...)` loop a handler is in
    closed,     \* whether the channel of each connection is closed
    nrecv,      \* inbound frames the handlers have taken so far (bounded by MaxMsgs)
    left,       \* history: the explicit leave branch (lines 95-104) ran for the handler
    nrelayed,   \* history: `relayed` envelopes sent for the handler's latest relay request
    seen,       \* history: the peers that were in the room when the handler's join in
                \* progress added its connection (empty once the join is through)
    out,        \* history: the envelope the last step sent (at most one)
    ev,         \* history: the last step
    rooms0      \* history: self.rooms before the last step

vars == <<rooms, room, payload, pc, todo, closed, nrecv, left, nrelayed, seen, out, ev, rooms0>>

\* ---- envelopes (json.dumps({...}) handed to send); ok: the send did not raise
Envelope(to, action, r, pl, n, err) ==
    [to |-> to, action |-> action, room |-> r, payload |-> pl, peers |-> n,
     error |-> err, ok |-> ~closed[to]]

ErrorEnv(c, msg) == Envelope(c, "error", None, None, 0, msg)
JoinedEnv(c, r, n) == Envelope(c, "joined", r, None, n, "")

\* the envelope each peer loop sends: lines 63-66, 87-91, 101-104, 119-122
LoopEnv(loop, p, r, pl) ==
    CASE loop = "join_loop" -> Envelope(p, "peer_joined", r, None, 0, "")
      [] loop = "relay_loop" -> Envelope(p, "relayed", r, pl, 0, "")
      [] OTHER -> Envelope(p, "peer_left", r, None, 0, "")

\* ---- the registry
\* `not room`, `not payload`
IsMissing(v) == v = None

\* `room and room in self.rooms` (lines 69, 94, 111)
InRoom(rms, r) == ~IsMissing(r) /\ r \in DOMAIN rms

\* lines 38-39
EnsureRoom(rms, r) ==
    IF r \in DOMAIN rms THEN rms
    ELSE [k \in DOMAIN rms \cup {r} |-> IF k = r THEN {} ELSE rms[k]]

RoomFull_OffByOne(rms, r) == Cardinality(rms[r]) > MaxPeers
\* line 42
RoomFull(rms, r) == Cardinality(rms[r]) >= MaxPeers

AddMember_Forgotten(rms, r, c) == rms
\* line 50
AddMember(rms, r, c) == [rms EXCEPT ![r] = @ \cup {c}]

Discard_Everywhere(rms, r, c) == [k \in DOMAIN rms |-> rms[k] \ {c}]
\* lines 95, 112
Discard(rms, r, c) == [rms EXCEPT ![r] = @ \ {c}]

DropIfEmpty_Never(rms, r) == rms
DropIfEmpty_Always(rms, r) == [k \in DOMAIN rms \ {r} |-> rms[k]]
\* lines 96-97, 113-114
DropIfEmpty(rms, r) ==
    IF Cardinality(rms[r]) = 0 THEN [k \in DOMAIN rms \ {r} |-> rms[k]] ELSE rms

Peers_All(rms, r, c) == rms[r]
\* lines 61-62, 85-86: `for peer in list(self.rooms[room]): if peer != websocket`
Peers(rms, r, c) == rms[r] \ {c}

\* lines 96-100, 113-117: the peers notified after a discard, `else: for peer in
\* list(self.rooms[room])`
Notified(rms, r) == IF Cardinality(rms[r]) = 0 THEN {} ELSE rms[r]

Init ==
    /\ rooms = << >>
    /\ room = [c \in Conns |-> None]
    /\ payload = [c \in Conns |-> None]
    /\ pc = [c \in Conns |-> "idle"]
    /\ todo = [c \in Conns |-> {}]
    /\ closed = [c \in Conns |-> FALSE]
    /\ nrecv = 0
    /\ left = [c \in Conns |-> FALSE]
    /\ nrelayed = [c \in Conns |-> 0]
    /\ seen = [c \in Conns |-> {}]
    /\ out = {}
    /\ ev = [conn |-> 0, kind |-> "init", arg |-> 0, room0 |-> None, pc0 |-> "idle",
             seen |-> {}]
    /\ rooms0 = << >>

Event(c, kind, arg) ==
    [conn |-> c, kind |-> kind, arg |-> arg, room0 |-> room[c], pc0 |-> pc[c],
     seen |-> seen[c]]

\* ---- pieces of handle_client

\* where the handler is once a loop's send has returned with `rest` still to do
AfterSend(loop, rest) ==
    IF rest # {} THEN loop
    ELSE CASE loop \in {"join_loop", "relay_loop"} -> "recv"
           [] loop = "final_loop" -> "done"
           [] OTHER -> loop

\* One turn of a `for peer in ...` loop over S: the send to the next peer (the
\* order of a set's list is not fixed).  ConnectionClosed is swallowed in the
\* loop of the finally block only (lines 118-124); elsewhere it ends the
\* message loop (line 107) and the finally block runs when the handler resumes.
Loop(c, loop, S, r, pl) ==
    IF S = {}
    THEN /\ out' = {}
         /\ todo' = [todo EXCEPT ![c] = {}]
         /\ pc' = [pc EXCEPT ![c] = AfterSend(loop, {})]
    ELSE \E p \in S :
            LET e == LoopEnv(loop, p, r, pl) IN
            /\ out' = {e}
            /\ IF e.ok \/ loop = "final_loop"
               THEN /\ todo' = [todo EXCEPT ![c] = S \ {p}]
                    /\ pc' = [pc EXCEPT ![c] = AfterSend(loop, S \ {p})]
               ELSE /\ todo' = [todo EXCEPT ![c] = {}]
                    /\ pc' = [pc EXCEPT ![c] = "raised"]

\* lines 109-124, the finally block up to its first send; rms is the registry
\* and r the handler's room when the block is entered
Cleanup(c, r, rms) ==
    IF InRoom(rms, r)
    THEN LET d == Discard(rms, r, c) IN
         /\ rooms' = DropIfEmpty(d, r)
         /\ Loop(c, "final_loop", Notified(d, r), r, None)
    ELSE /\ rooms' = rms
         /\ Loop(c, "final_loop", {}, r, None)

\* a reply to the handler's own connection followed by `continue`
Reply(c, e) ==
    /\ out' = {e}
    /\ pc' = [pc EXCEPT ![c] = IF e.ok THEN "recv" ELSE "raised"]
    /\ todo' = todo

\* the number of `relayed` envelopes in a step's output
Relayed(o) == Cardinality({e \in o : e.action = "relayed"})

\* ---- the steps of a handler

\* a connection is accepted: handle_client starts and waits at line 24
Connect(c) ==
    /\ pc[c] = "idle"
    /\ pc' = [pc EXCEPT ![c] = "recv"]
    /\ ev' = Event(c, "connect", 0)
    /\ out' = {}
    /\ rooms0' = rooms
    /\ UNCHANGED <<rooms, room, payload, todo, closed, nrecv, left, nrelayed, seen>>

\* the transport reports the channel closed (by the client, or the network)
Disconnect(c) ==
    /\ pc[c] # "idle"
    /\ ~closed[c]
    /\ closed' = [closed EXCEPT ![c] = TRUE]
    /\ ev' = Event(c, "disconnect", 0)
    /\ out' = {}
    /\ rooms0' = rooms
    /\ UNCHANGED <<rooms, room, payload, pc, todo, nrecv, left, nrelayed, seen>>

\* the handler takes the next inbound frame (frames that arrived before a close
\* are still delivered)
Takes(c, kind, arg) ==
    /\ pc[c] = "recv"
    /\ nrecv < MaxMsgs
    /\ nrecv' = nrecv + 1
    /\ ev' = Event(c, kind, arg)
    /\ rooms0' = rooms
    /\ closed' = closed

\* lines 28-58: {"action": "join", "room": r}, up to the `joined` reply
Join(c, r) ==
    /\ Takes(c, "join", r)
    /\ room' = [room EXCEPT ![c] = r]
    /\ IF IsMissing(r)
       THEN /\ rooms' = rooms
            /\ Reply(c, ErrorEnv(c, "Missing room"))
            /\ seen' = seen
       ELSE LET rms == EnsureRoom(rooms, r) IN
            IF RoomFull(rms, r)
            THEN /\ rooms' = rms
                 /\ Reply(c, ErrorEnv(c, "Room is full (max 2 peers)"))
                 /\ seen' = seen
            ELSE LET added == AddMember(rms, r, c)
                     e == JoinedEnv(c, r, Cardinality(added[r])) IN
                 /\ rooms' = added
                 /\ out' = {e}
                 /\ pc' = [pc EXCEPT ![c] = IF e.ok THEN "joined_sent" ELSE "raised"]
                 /\ todo' = todo
                 /\ seen' = [seen EXCEPT ![c] = IF e.ok THEN rms[r] \ {c} ELSE {}]
    /\ UNCHANGED <<payload, left, nrelayed>>

\* lines 60-66: the handler resumes after the `joined` reply and notifies the peers
JoinNotify(c) ==
    /\ pc[c] = "joined_sent"
    /\ ev' = Event(c, "join_notify", 0)
    /\ rooms0' = rooms
    /\ Loop(c, "join_loop", Peers(rooms, room[c], c), room[c], None)
    /\ seen' = [seen EXCEPT ![c] = {}]
    /\ UNCHANGED <<rooms, room, payload, closed, nrecv, left, nrelayed>>

\* lines 68-91: {"action": "relay", "payload": pl}, up to the first send
Relay(c, pl) ==
    /\ Takes(c, "relay", pl)
    /\ IF ~InRoom(rooms, room[c])
       THEN /\ Reply(c, ErrorEnv(c, "Not in a room"))
            /\ payload' = payload
       ELSE /\ payload' = [payload EXCEPT ![c] = pl]
            /\ IF IsMissing(pl)
               THEN Reply(c, ErrorEnv(c, "Missing payload"))
               ELSE Loop(c, "relay_loop", Peers(rooms, room[c], c), room[c], pl)
    /\ nrelayed' = [nrelayed EXCEPT ![c] = Relayed(out')]
    /\ UNCHANGED <<rooms, room, left, seen>>

\* `break` indented under the `if` of line 94
Leave_BreakInsideIf(c) ==
    /\ Takes(c, "leave", 0)
    /\ IF InRoom(rooms, room[c])
       THEN LET d == Discard(rooms, room[c], c) IN
            IF Notified(d, room[c]) = {}
            THEN Cleanup(c, room[c], DropIfEmpty(d, room[c]))
            ELSE /\ rooms' = DropIfEmpty(d, room[c])
                 /\ Loop(c, "leave_loop", Notified(d, room[c]), room[c], None)
       ELSE /\ rooms' = rooms
            /\ out' = {}
            /\ UNCHANGED <<pc, todo>>
    /\ left' = [left EXCEPT ![c] = InRoom(rooms, room[c])]
    /\ UNCHANGED <<room, payload, nrelayed, seen>>

\* lines 93-105: {"action": "leave"}, up to the first send; with nobody to
\* notify, `break` runs the finally block at once
Leave(c) ==
    /\ Takes(c, "leave", 0)
    /\ IF InRoom(rooms, room[c])
       THEN LET d == Discard(rooms, room[c], c) IN
            IF Notified(d, room[c]) = {}
            THEN Cleanup(c, room[c], DropIfEmpty(d, room[c]))
            ELSE /\ rooms' = DropIfEmpty(d, room[c])
                 /\ Loop(c, "leave_loop", Notified(d, room[c]), room[c], None)
       ELSE Cleanup(c, room[c], rooms)
    /\ left' = [left EXCEPT ![c] = InRoom(rooms, room[c])]
    /\ UNCHANGED <<room, payload, nrelayed, seen>>

\* the frame is answered with an error and the loop goes on
Malformed_ErrorReply(c) ==
    /\ Takes(c, "malformed", 0)
    /\ rooms' = rooms
    /\ Reply(c, ErrorEnv(c, "Malformed frame"))
    /\ UNCHANGED <<room, payload, left, nrelayed, seen>>

\* line 25: json.loads raises on a frame that does not parse; the exception is
\* not a ConnectionClosed, so only the finally block runs
Malformed(c) ==
    /\ Takes(c, "malformed", 0)
    /\ Cleanup(c, room[c], rooms)
    /\ UNCHANGED <<room, payload, left, nrelayed, seen>>

\* line 24: the iteration ends because the channel is closed
EndOfStream(c) ==
    /\ pc[c] = "recv"
    /\ closed[c]
    /\ ev' = Event(c, "eof", 0)
    /\ rooms0' = rooms
    /\ Cleanup(c, room[c], rooms)
    /\ UNCHANGED <<room, payload, closed, nrecv, left, nrelayed, seen>>

\* the handler resumes inside a peer loop and sends to the next peer
NextPeer(c) ==
    /\ pc[c] \in {"join_loop", "relay_loop", "leave_loop", "final_loop"}
    /\ todo[c] # {}
    /\ ev' = Event(c, "next_peer", 0)
    /\ rooms0' = rooms
    /\ Loop(c, pc[c], todo[c], room[c], payload[c])
    /\ nrelayed' = [nrelayed EXCEPT ![c] = @ + Relayed(out')]
    /\ UNCHANGED <<rooms, room, payload, closed, nrecv, left, seen>>

\* lines 105-124: the handler resumes after the last `peer_left` of an explicit
\* leave (`break`), or with a ConnectionClosed raised by a send (line 107), and
\* runs the finally block
Finally(c) ==
    /\ \/ pc[c] = "raised"
       \/ pc[c] = "leave_loop" /\ todo[c] = {}
    /\ ev' = Event(c, "finally", 0)
    /\ rooms0' = rooms
    /\ Cleanup(c, room[c], rooms)
    /\ UNCHANGED <<room, payload, closed, nrecv, left, nrelayed, seen>>

Next ==
    \/ \E c \in Conns : Connect(c)
    \/ \E c \in Conns : Disconnect(c)
    \/ \E c \in Conns, r \in RoomIds \cup {None} : Join(c, r)
    \/ \E c \in Conns : JoinNotify(c)
    \/ \E c \in Conns, pl \in Payloads \cup {None} : Relay(c, pl)
    \/ \E c \in Conns : Leave(c)
    \/ \E c \in Conns : Malformed(c)
    \/ \E c \in Conns : EndOfStream(c)
    \/ \E c \in Conns : NextPeer(c)
    \/ \E c \in Conns : Finally(c)

Spec == Init /\ [][Next]_vars

\* ---- well-formedness of the model's state
TypeOK ==
    /\ DOMAIN rooms \subseteq RoomIds
    /\ \A r \in DOMAIN rooms : rooms[r] \subseteq Conns
    /\ room \in [Conns -> RoomIds \cup {None}]
    /\ payload \in [Conns -> Payloads \cup {None}]
    /\ pc \in [Conns -> {"idle", "recv", "joined_sent", "join_loop", "relay_loop",
                         "leave_loop", "final_loop", "raised", "done"}]
    /\ todo \in [Conns -> SUBSET Conns]
    /\ closed \in [Conns -> BOOLEAN]
    /\ nrecv \in 0..MaxMsgs
    /\ Cardinality(out) <= 1

\* ---- vocabulary of the properties
\* the members of room r in registry rms (none when r is no key)
Members(rms, r) == IF r \in DOMAIN rms THEN rms[r] ELSE {}

\* the rooms of registry rms that hold connection c
RoomsOf(rms, c) == {r \in DOMAIN rms : c \in rms[r]}

\* the steps that run the leave code: lines 94-104 and the finally block
LeaveKinds == {"leave", "eof", "malformed", "finally"}

\* the last step ran the leave code for a connection that was a member of its
\* handler's room
MemberLeft ==
    /\ ev.kind \in LeaveKinds
    /\ InRoom(rooms0, ev.room0)
    /\ ev.conn \in rooms0[ev.room0]

\* C1: in every reachable state every room of the registry has at most 2
\* member connections.
C1_RoomCapacity == \A r \in DOMAIN rooms : Cardinality(rooms[r]) <= 2

\* a third connection asks to join a room of 2 while one of the two members is
\* still suspended in its own join
C1_Witness ==
    /\ ev.kind = "join"
    /\ Cardinality(Members(rooms0, ev.arg)) = 2
    /\ ev.conn \notin Members(rooms0, ev.arg)
    /\ \E m \in Members(rooms, ev.arg) : pc[m] = "joined_sent"

\* C2: whenever the handlers are suspended, a room id is a key of the registry
\* iff its member set is non-empty, i.e. no key maps to an empty set.
C2_NoEmptyRoom == \A r \in DOMAIN rooms : rooms[r] # {}

\* the only member of a room has just left it and the key is gone, while
\* another room is still in the registry
C2_Witness ==
    /\ MemberLeft
    /\ rooms0[ev.room0] = {ev.conn}
    /\ ev.room0 \notin DOMAIN rooms
    /\ DOMAIN rooms # {}

\* C3: once a connection's handler has terminated, the connection is a member
\* of no room of the registry.
C3_NoStaleMember == \A c \in Conns : pc[c] = "done" => RoomsOf(rooms, c) = {}

\* C4: a relay request of a connection that is a member of no room is answered
\* with the error "Not in a room" and no `relayed` envelope is sent.
C4_RelayNeedsMembership ==
    (ev.kind = "relay" /\ RoomsOf(rooms0, ev.conn) = {})
        => \E e \in out :
              /\ out = {e}
              /\ e.to = ev.conn
              /\ e.action = "error"
              /\ e.error = "Not in a room"

\* C5: a join to a room that already has 2 members leaves the registry as it
\* was, is answered with the error "Room is full (max 2 peers)" and nothing
\* else, and the handler goes on without the peer notification of a join.
C5_FullRoomJoinRejected ==
    (ev.kind = "join" /\ Cardinality(Members(rooms0, ev.arg)) = 2)
        => /\ rooms = rooms0
           /\ \E e \in out :
                 /\ out = {e}
                 /\ e.to = ev.conn
                 /\ e.action = "error"
                 /\ e.error = "Room is full (max 2 peers)"
           /\ pc[ev.conn] \in {"recv", "raised"}

\* a third connection was refused by a room of 2 and got the error reply
C5_Witness ==
    /\ ev.kind = "join"
    /\ Cardinality(Members(rooms0, ev.arg)) = 2
    /\ ev.conn \notin Members(rooms0, ev.arg)
    /\ \E e \in out : e.action = "error" /\ e.ok
    /\ pc[ev.conn] = "recv"

\* C6: a relay request causes at most one `relayed` envelope, and exactly one
\* once it is through when its room had 2 members.
C6_AtMostOneRelayed ==
    /\ \A c \in Conns : nrelayed[c] <= 1
    /\ (/\ ev.kind = "relay"
        /\ InRoom(rooms0, ev.room0)
        /\ ~IsMissing(ev.arg)
        /\ Cardinality(rooms0[ev.room0]) = 2
        /\ pc[ev.conn] # "relay_loop")
          => nrelayed[ev.conn] = 1

\* C7: a `relayed` envelope carries the payload of the request that caused it,
\* does not go to the connection that sent the request, and goes to a member
\* of the relay's room at the moment of the send.
C7_RelayedEnvelope ==
    \A e \in out :
        e.action = "relayed"
            => /\ e.payload = (IF ev.kind = "relay" THEN ev.arg ELSE payload[ev.conn])
               /\ e.to # ev.conn
               /\ e.room = ev.room0
               /\ e.to \in Members(rooms0, ev.room0)

\* C8: when the finally block runs for a handler whose explicit leave already
\* removed the connection, it changes nothing in the registry and sends no
\* `peer_left`.
C8_SecondLeaveSilent ==
    (ev.kind = "finally" /\ left[ev.conn])
        => /\ rooms = rooms0
           /\ \A e \in out : e.action # "peer_left"

\* C9: when a member leaves its room (explicit leave, or the cleanup of a
\* disconnect or failure): alone, the room is deleted; with a peer, the room
\* stays with exactly that peer and a `peer_left` for the room is sent to it.
C9_LeaveOutcome ==
    MemberLeft =>
        IF rooms0[ev.room0] = {ev.conn}
        THEN ev.room0 \notin DOMAIN rooms
        ELSE /\ ev.room0 \in DOMAIN rooms
             /\ rooms[ev.room0] = rooms0[ev.room0] \ {ev.conn}
             /\ Cardinality(rooms[ev.room0]) = 1
             /\ \E e \in out :
                   /\ out = {e}
                   /\ rooms[ev.room0] = {e.to}
                   /\ e.action = "peer_left"
                   /\ e.room = ev.room0

\* a member's channel closed while its peer stayed: the peer is alone in the
\* room and was sent `peer_left`
C9_Witness ==
    /\ MemberLeft
    /\ ev.kind = "eof"
    /\ Cardinality(rooms0[ev.room0]) = 2
    /\ \E e \in out : e.action = "peer_left" /\ e.ok /\ rooms[ev.room0] = {e.to}

\* C10: a failed `peer_joined` send is swallowed: the joiner's handler goes on
\* and the joiner stays a member of the room.
C10_PeerJoinedFailureSwallowed ==
    \A e \in out :
        (e.action = "peer_joined" /\ ~e.ok)
            => /\ pc[ev.conn] \in {"recv", "join_loop"}
               /\ ev.conn \in Members(rooms, room[ev.conn])

\* C11: a failed `relayed` send does not fail the sender's operation: the
\* sender, a member of its room, keeps its handler running and stays a member.
C11_RelayFailureSwallowed ==
    \A e \in out :
        (e.action = "relayed" /\ ~e.ok /\ ev.conn \in Members(rooms0, ev.room0))
            => /\ pc[ev.conn] \in {"recv", "relay_loop"}
               /\ ev.conn \in Members(rooms, room[ev.conn])

\* C12: every connection is a member of at most one room, and a join frame
\* taken by a handler that is joined leaves its room id as it was.
C12_SingleRoom ==
    /\ \A c \in Conns : Cardinality(RoomsOf(rooms, c)) <= 1
    /\ (ev.kind = "join" /\ ev.conn \in Members(rooms0, ev.room0))
          => room[ev.conn] = ev.room0

\* the connections the last step sent a `peer_joined` to
PeerJoinedTo == {e.to : e \in {x \in out : x.action = "peer_joined"}}

\* C13: the `peer_joined` caused by a join goes exactly to the connections
\* that were members of the room when the joiner was added, never to one that
\* joined after the joiner.
C13_JoinAtomic ==
    ev.kind = "join_notify" => PeerJoinedTo = ev.seen

\* C14: a join that is answered `joined` has added the connection to the room
\* (created if absent), reports the member count right after the add (1 for
\* the first member, 2 for the second), and the member that was already
\* present is sent `peer_joined` for that room.
C14_JoinOutcome ==
    /\ \A e \in out :
          e.action = "joined"
              => /\ ev.kind = "join"
                 /\ e.to = ev.conn
                 /\ e.room = ev.arg
                 /\ rooms[ev.arg] = Members(rooms0, ev.arg) \cup {ev.conn}
                 /\ \A r \in DOMAIN rooms \ {ev.arg} : rooms[r] = Members(rooms0, r)
                 /\ e.peers = Cardinality(rooms[ev.arg])
                 /\ e.peers = Cardinality(Members(rooms0, ev.arg) \ {ev.conn}) + 1
    /\ ev.kind = "join_notify"
          => \A p \in ev.seen :
                \E e \in out :
                    e.to = p /\ e.action = "peer_joined" /\ e.room = ev.room0

\* C15: a frame that does not parse ends the loop of its connection only: no
\* reply goes to the connection, the cleanup of a close runs (the connection
\* leaves its room, an emptied room is deleted, otherwise a remaining peer is
\* sent `peer_left`), and no other room or handler changes.
C15_MalformedFatal ==
    [][ev'.kind = "malformed" =>
          LET c == ev'.conn
              r == room[c] IN
          /\ pc[c] = "recv"
          /\ pc'[c] \in {"done", "final_loop"}
          /\ room' = room
          /\ \A e \in out' :
                /\ e.to # c
                /\ e.action = "peer_left"
                /\ e.room = r
                /\ e.to \in Members(rooms', r)
          /\ Members(rooms', r) = Members(rooms, r) \ {c}
          /\ Members(rooms', r) # {} => out' # {}
          /\ \A k \in DOMAIN rooms' : rooms'[k] # {}
          /\ \A k \in RoomIds \ {r} : Members(rooms', k) = Members(rooms, k)
          /\ \A d \in Conns \ {c} :
                /\ pc'[d] = pc[d]
                /\ todo'[d] = todo[d]
                /\ closed'[d] = closed[d]
       ]_vars

\* a member of a room of 2 sent a frame that does not parse; its peer was
\* sent `peer_left`
C15_Witness ==
    /\ ev.kind = "malformed"
    /\ ev.conn \in Members(rooms0, ev.room0)
    /\ Cardinality(Members(rooms0, ev.room0)) = 2
    /\ \E e \in out : e.action = "peer_left" /\ e.ok
    /\ pc[ev.conn] = "done"

\* C16: after an error reply the registry and the handler's room association
\* are as they were before the rejected request.
C16_ErrorsKeepSession ==
    \A e \in out :
        e.action = "error" => rooms = rooms0 /\ room[ev.conn] = ev.room0

\* C17: a `peer_left` for a room is sent only in a step that has just removed
\* the sending handler's connection, a member, from that room.
C17_PeerLeftOnlyAfterRemoval ==
    \A e \in out :
        e.action = "peer_left"
            => /\ ev.conn \in Members(rooms0, e.room)
               /\ ev.conn \notin Members(rooms, e.room)

\* where a handler is once it has left its message loop
Closing == {"leave_loop", "raised", "final_loop", "done"}

\* C18: a leave frame ends the message loop, joined or not and whether or not
\* the `peer_left` send succeeds: the handler is out of the loop after the
\* frame, stays out, and takes no further frame.
C18_LeaveTerminates ==
    [][/\ ev'.kind = "leave" => pc'[ev'.conn] \in Closing
       /\ \A c \in Conns :
             pc[c] \in Closing
                 => /\ pc'[c] \in Closing
                    /\ ev'.conn = c => ev'.kind \in {"next_peer", "finally", "disconnect"}
      ]_vars

\* a leave whose `peer_left` send failed has run to the end of the handler
C18_Witness ==
    /\ ev.kind = "finally"
    /\ ev.pc0 = "raised"
    /\ left[ev.conn]
    /\ pc[ev.conn] = "done"

\* C19: within a join, `joined` is sent before `peer_joined`, the joiner being
\* a member of the room at both sends; when the `joined` send fails, no
\* `peer_joined` follows and the cleanup removes the joiner from the room.
C19_JoinOrder ==
    [][LET c == ev'.conn IN
       /\ \A e \in out' :
             e.action = "joined"
                 => /\ e.to = c
                    /\ c \in Members(rooms', e.room)
                    /\ pc'[c] = (IF e.ok THEN "joined_sent" ELSE "raised")
       /\ \A e \in out' :
             e.action = "peer_joined"
                 => /\ pc[c] = "joined_sent"
                    /\ e.room = room[c]
                    /\ c \in Members(rooms', e.room)
       /\ (pc'[c] = "joined_sent" /\ pc[c] # "joined_sent")
             => \E e \in out' : e.action = "joined" /\ e.to = c /\ e.ok
       /\ (pc[c] = "raised" /\ pc'[c] # "raised")
             => /\ ev'.kind = "finally"
                /\ c \notin Members(rooms', room[c])
                /\ \A e \in out' : e.action = "peer_left"
      ]_vars

\* the only frame taken so far was a join whose `joined` reply failed; the
\* cleanup has taken the joiner out of the room again
C19_Witness ==
    /\ ev.kind = "finally"
    /\ ev.pc0 = "raised"
    /\ nrecv = 1
    /\ closed[ev.conn]
    /\ ev.conn \in Members(rooms0, ev.room0)
    /\ ev.conn \notin Members(rooms, ev.room0)

\* C20: a step of a handler whose room is r changes the members of no other
\* room, and what it sends to other connections is tagged r and goes to
\* connections taken from the members of r.
C20_RoomIsolation ==
    [][LET c == ev'.conn
           r == room'[c] IN
       /\ \A k \in RoomIds \ {r} : Members(rooms', k) = Members(rooms, k)
       /\ \A e \in out' :
             e.to # c
                 => /\ e.room = r
                    /\ e.action \in {"peer_joined", "relayed", "peer_left"}
                    /\ e.to \in Members(rooms, r) \cup todo[c]
      ]_vars

\* a connection that is a member of two rooms has left one of them; the other
\* still holds it
C20_Witness ==
    /\ ev.kind \in LeaveKinds
    /\ Cardinality(RoomsOf(rooms0, ev.conn)) = 2
    /\ Cardinality(RoomsOf(rooms, ev.conn)) = 1
    /\ RoomsOf(rooms, ev.conn) # {ev.room0}

====
